---- MODULE Spec2Model ----
(***************************************************************************)
(* Model of the lab_5_scrapper crawler (scrapper.py) and of the            *)
(* lab_6_pipeline corpus manager (pipeline.py).                            *)
(*                                                                         *)
(* Python strings are sequences of one-character strings, so that slicing, *)
(* concatenation, prefix matching and set.update(str) behave as in Python. *)
(* Values read from the JSON configuration are tagged with their Python    *)
(* type: [t |-> type, v |-> value]; a bool carries v \in {0, 1} because    *)
(* bool is a subclass of int in Python (True == 1).                        *)
(***************************************************************************)
EXTENDS Integers, Sequences, FiniteSets, TLC

VARIABLES
    config,          \* content of the JSON configuration file
    cfgResult,       \* outcome of Config(path): "pending", "ok" or the exception raised
    entry,           \* what runs: "config", "main", "main_recursive", "pipeline",
                     \* "count_frequencies", "pattern_search"
    pc,              \* position of the entry point
    error,           \* the exception that ended the run, "" while none
    assets,          \* ASSETS_PATH: [exists, files]
    requests,        \* URLs passed to make_request so far, in order
    urls,            \* Crawler.urls
    seed_idx,        \* position of find_articles in seed_urls
    article_bs,      \* the page find_articles works on
    extracted_url,   \* local extracted_url of find_articles
    parse_log,       \* per parsed url: was the response OK, was the article written
    article,         \* HTMLParser.article of the last parser
    response,        \* the response the last HTMLParser.parse got
    web,             \* responses of the site, fixed at the first request of a URL
    stack,           \* call stack of CrawlerRecursive.find_articles
    start_url,       \* CrawlerRecursive.start_url
    already_crawled, \* CrawlerRecursive.already_crawled
    crawled_file,    \* already_crawled_urls.txt: the set of its lines
    directory,       \* CorpusManager.path_to_raw_txt_data on disk
    storage,         \* CorpusManager._storage
    corpusResult,    \* outcome of CorpusManager(path)
    seed_ok,         \* response.ok of every request find_articles has made
    analyzer,        \* TextProcessingPipeline.analyzer
    remaining,       \* ids of the articles the loop of run() has not reached yet, in order
    calls,           \* calls made by run(), in order: [op, id]
    conllu_info,     \* per article id: the parse set_conllu_info stored
    conllu_files,    \* CONLL-U files on disk: [id, kind, doc]
    conllu_doc,      \* the document from_conllu reads for the article at hand
    pos_info,        \* results of the calls of _count_frequencies so far
    node_labels,     \* PatternSearchPipeline._node_labels
    found_patterns,  \* result of _find_pattern
    restored         \* the crawler a later CrawlerRecursive.__init__ builds

cfgVars == <<config, cfgResult>>
runVars == <<entry, pc, error>>
crawlVars == <<urls, seed_idx, article_bs, extracted_url, seed_ok>>
parseVars == <<parse_log, article, response>>
recVars == <<web, stack, start_url, already_crawled, crawled_file, restored>>
runPipeVars == <<analyzer, remaining, calls, conllu_info, conllu_files>>
posVars == <<conllu_doc, pos_info>>
patternVars == <<node_labels, found_patterns>>
pipeVars == <<directory, storage, corpusResult, runPipeVars, posVars, patternVars>>
vars == <<config, cfgResult, entry, pc, error, assets, requests, urls, seed_idx,
          article_bs, extracted_url, parse_log, article, response, web, stack, start_url,
          already_crawled, crawled_file, directory, storage, corpusResult, seed_ok,
          analyzer, remaining, calls, conllu_info, conllu_files, conllu_doc, pos_info,
          node_labels, found_patterns, restored>>

-----------------------------------------------------------------------------
(* Python values *)

PyInt(n) == [t |-> "int", v |-> n]
PyBool(b) == [t |-> "bool", v |-> IF b THEN 1 ELSE 0]
PyStr(s) == [t |-> "str", v |-> s]
PyList(s) == [t |-> "list", v |-> s]
PyDict == [t |-> "dict", v |-> 0]
PyNone == [t |-> "NoneType", v |-> 0]

\* isinstance(x, int): True for int and for its subclass bool
IsInt(x) == x.t \in {"int", "bool"}
IsBool(x) == x.t = "bool"
IsStr(x) == x.t = "str"
IsList(x) == x.t = "list"
IsDict(x) == x.t = "dict"

-----------------------------------------------------------------------------
(* String literals of scrapper.py *)

site == <<"h","t","t","p","s",":","/","/","w","w","w",".",
          "s","b","r","a","s",".","i","n","f","o">>
news == <<"/","n","e","w","s">>
\* Crawler.base_url = "https://www.sbras.info/news"
base_url == site \o news

\* s[i:i+len(lit)] == lit
HasAt(s, i, lit) ==
    /\ i >= 1
    /\ i + Len(lit) - 1 <= Len(s)
    /\ SubSeq(s, i, i + Len(lit) - 1) = lit

\* re.match(r"https?://(www)?\.sbras\.info/news+", s): a match anchored at the
\* start of s. An optional group is taken when present; skipping it could not
\* match either, since the next literal starts with another character.
ReMatchSeed(s) ==
    LET lit1 == <<"h","t","t","p">>
        lit2 == <<":","/","/">>
        lit3 == <<"w","w","w">>
        lit4 == <<".","s","b","r","a","s",".","i","n","f","o","/","n","e","w">>
        i1 == 1 + Len(lit1)
        i2 == IF HasAt(s, i1, <<"s">>) THEN i1 + 1 ELSE i1
        i3 == i2 + Len(lit2)
        i4 == IF HasAt(s, i3, lit3) THEN i3 + Len(lit3) ELSE i3
        i5 == i4 + Len(lit4)
    IN  /\ HasAt(s, 1, lit1)
        /\ HasAt(s, i2, lit2)
        /\ HasAt(s, i4, lit4)
        /\ HasAt(s, i5, <<"s">>)

-----------------------------------------------------------------------------
(* Config *)

MaxArticles == 150
MaxTimeout == 60

\* isinstance(config.seed_urls, list) and all(re.match(...) for seed_url in ...):
\* all() stops at the first element that does not match; re.match raises
\* TypeError on an element that is not a string.
SeedCheck(seed_urls) ==
    IF ~IsList(seed_urls) THEN "fail"
    ELSE LET s == seed_urls.v
             bad == {i \in 1..Len(s) : ~(IsStr(s[i]) /\ ReMatchSeed(s[i].v))}
         IN  IF bad = {} THEN "pass"
             ELSE LET first == CHOOSE i \in bad : \A j \in bad : i <= j
                  IN  IF IsStr(s[first]) THEN "fail" ELSE "TypeError"

\* if not isinstance(config.timeout, int) or config.timeout > 60 or config.timeout < 0
TimeoutRejected(timeout) ==
    \/ ~IsInt(timeout)
    \/ timeout.v > MaxTimeout
    \/ timeout.v < 0

\* if not isinstance(should_verify_certificate, bool) or not isinstance(headless_mode, bool)
VerifyRejected(c) ==
    \/ ~IsBool(c.should_verify_certificate)
    \/ ~IsBool(c.headless_mode)

\* The exception Config._validate_config_content raises, or "ok".
validate_config_content(c) ==
    IF SeedCheck(c.seed_urls) = "TypeError" THEN "TypeError"
    ELSE IF SeedCheck(c.seed_urls) = "fail" THEN "IncorrectSeedURLError"
    ELSE IF ~IsInt(c.total_articles) \/ c.total_articles.v <= 0
        THEN "IncorrectNumberOfArticlesError"
    ELSE IF c.total_articles.v > MaxArticles THEN "NumberOfArticlesOutOfRangeError"
    ELSE IF ~IsDict(c.headers) THEN "IncorrectHeadersError"
    ELSE IF ~IsStr(c.encoding) THEN "IncorrectEncodingError"
    ELSE IF VerifyRejected(c) THEN "IncorrectVerifyError"
    ELSE IF TimeoutRejected(c.timeout) THEN "IncorrectTimeoutError"
    ELSE "ok"

\* prepare_environment: mkdir(parents=True, exist_ok=True), then unlink every file
prepared_assets == [exists |-> TRUE, files |-> {}]

\* Faulty variant of Config_init: the environment is prepared before the Config is built.
Config_init_after_prepare ==
    /\ pc = "start"
    /\ assets' = IF entry = "config" THEN assets ELSE prepared_assets
    /\ cfgResult' = validate_config_content(config)
    /\ IF cfgResult' = "ok"
          THEN /\ pc' = IF entry = "config" THEN "done" ELSE "prepare"
               /\ error' = error
          ELSE /\ pc' = "raised"
               /\ error' = cfgResult'
    /\ UNCHANGED <<config, entry, requests, crawlVars, parseVars, recVars, pipeVars>>

\* Config.__init__: validation first; the fields are set only when it passes.
\* A raised exception ends the entry point that constructs the Config.
Config_init ==
    /\ pc = "start"
    /\ cfgResult' = validate_config_content(config)
    /\ IF cfgResult' = "ok"
          THEN /\ pc' = IF entry = "config" THEN "done" ELSE "prepare"
               /\ error' = error
          ELSE /\ pc' = "raised"
               /\ error' = cfgResult'
    /\ UNCHANGED <<config, entry, assets, requests, crawlVars, parseVars,
                   recVars, pipeVars>>

\* Config.get_num_articles, Config.get_seed_urls
get_num_articles == config.total_articles.v
get_seed_urls == config.seed_urls.v

-----------------------------------------------------------------------------
(* Pages *)

\* no page, no article yet, no directory
NoPage == <<>>
NoArticle == [kind |-> "none", url |-> <<>>, article_id |-> 0,
              title |-> <<>>, author |-> <<>>, date |-> "", filled |-> FALSE]
NoResponse == [ok |-> FALSE, page |-> <<>>]
NoDirectory == [exists |-> FALSE, is_dir |-> FALSE, files |-> {}]
NoCrawler == [built |-> FALSE, urls |-> <<>>, already_crawled |-> {}]

Range(s) == {s[i] : i \in 1..Len(s)}
Min(S) == CHOOSE i \in S : \A j \in S : i <= j

\* s[n:]
Slice(s, n) == SubSeq(s, n + 1, Len(s))

\* href[len('/news')::] appended to base_url
LinkUrl(link) == base_url \o Slice(link.href.v, Len(news))

\* Faulty variant of extract_url: the test "url not in self.urls" is missing, the first
\* 'Подробнее' link ends the loop.
extract_url_no_seen_test(bs, crawled) ==
    LET links == SelectSeq(bs, LAMBDA e : e.a_ru)
        stop == {i \in 1..Len(links) : links[i].more}
    IN  IF stop = {} THEN [raised |-> FALSE, url |-> <<>>]
        ELSE IF ~IsStr(links[Min(stop)].href) THEN [raised |-> TRUE, url |-> <<>>]
        ELSE [raised |-> FALSE, url |-> LinkUrl(links[Min(stop)])]

\* Crawler._extract_url on a page given as the sequence of its elements
\* [a_ru, more, href]: a_ru says the element is <a hreflang="ru">, more that
\* 'Подробнее' is one of its stripped strings, href is its href (None when
\* the attribute is missing, and then slicing it raises TypeError).
\* The first 'Подробнее' link whose url is not in urls ends the loop; when no
\* link does, the for-else returns ''.
extract_url(bs, crawled) ==
    LET links == SelectSeq(bs, LAMBDA e : e.a_ru)
        stop == {i \in 1..Len(links) :
                    /\ links[i].more
                    /\ \/ ~IsStr(links[i].href)
                       \/ LinkUrl(links[i]) \notin Range(crawled)}
    IN  IF stop = {} THEN [raised |-> FALSE, url |-> <<>>]
        ELSE IF ~IsStr(links[Min(stop)].href) THEN [raised |-> TRUE, url |-> <<>>]
        ELSE [raised |-> FALSE, url |-> LinkUrl(links[Min(stop)])]

-----------------------------------------------------------------------------
(* main: environment and Crawler *)

\* main, line 479
prepare_environment ==
    /\ entry = "main"
    /\ pc = "prepare"
    /\ assets' = prepared_assets
    /\ pc' = "crawler_init"
    /\ UNCHANGED <<cfgVars, entry, error, requests, crawlVars, parseVars, recVars,
                   pipeVars>>

\* Crawler.__init__, then find_articles is entered
Crawler_init ==
    /\ entry = "main"
    /\ pc = "crawler_init"
    /\ urls' = <<>>
    /\ seed_idx' = 1
    /\ pc' = "find_articles"
    /\ UNCHANGED <<cfgVars, entry, error, assets, requests, article_bs, extracted_url,
                   seed_ok, parseVars, recVars, pipeVars>>

\* find_articles returns: its locals are gone
find_articles_return ==
    /\ seed_idx' = 0
    /\ article_bs' = NoPage
    /\ extracted_url' = <<>>
    /\ pc' = "parse"
    /\ error' = error

\* Faulty variant of find_articles_request: a response that is not OK ends
\* find_articles instead of the pass for that seed.
find_articles_request_return_on_failure(ok, page) ==
    /\ pc = "find_articles"
    /\ seed_idx <= Len(get_seed_urls)
    /\ requests' = Append(requests, get_seed_urls[seed_idx].v)
    /\ seed_ok' = Append(seed_ok, ok)
    /\ urls' = urls
    /\ UNCHANGED <<cfgVars, entry, assets, parseVars, recVars, pipeVars>>
    /\ IF ~ok
          THEN find_articles_return
          ELSE /\ seed_idx' = seed_idx
               /\ article_bs' = page
               /\ LET e == extract_url(page, urls)
                  IN  IF e.raised
                         THEN /\ pc' = "raised"
                              /\ error' = "TypeError"
                              /\ extracted_url' = <<>>
                         ELSE /\ pc' = "find_articles_while"
                              /\ error' = error
                              /\ extracted_url' = e.url

\* One pass of "for seed_url in seed_urls" up to the while loop: the request,
\* the "continue" on a response that is not OK, the first _extract_url.
find_articles_request(ok, page) ==
    /\ pc = "find_articles"
    /\ seed_idx <= Len(get_seed_urls)
    /\ requests' = Append(requests, get_seed_urls[seed_idx].v)
    /\ seed_ok' = Append(seed_ok, ok)
    /\ urls' = urls
    /\ UNCHANGED <<cfgVars, entry, assets, parseVars, recVars, pipeVars>>
    /\ IF ~ok
          THEN /\ seed_idx' = seed_idx + 1
               /\ UNCHANGED <<article_bs, extracted_url, pc, error>>
          ELSE /\ seed_idx' = seed_idx
               /\ article_bs' = page
               /\ LET e == extract_url(page, urls)
                  IN  IF e.raised
                         THEN /\ pc' = "raised"
                              /\ error' = "TypeError"
                              /\ extracted_url' = <<>>
                         ELSE /\ pc' = "find_articles_while"
                              /\ error' = error
                              /\ extracted_url' = e.url

\* The for loop is exhausted.
find_articles_exhausted ==
    /\ pc = "find_articles"
    /\ seed_idx > Len(get_seed_urls)
    /\ find_articles_return
    /\ UNCHANGED <<urls, requests, seed_ok>>
    /\ UNCHANGED <<cfgVars, entry, assets, parseVars, recVars, pipeVars>>

\* Faulty variant of find_articles_while: the "if len(self.urls) == num: break" after the
\* while loop is missing, the next seed is always tried.
find_articles_while_no_break ==
    /\ pc = "find_articles_while"
    /\ requests' = requests
    /\ seed_ok' = seed_ok
    /\ UNCHANGED <<cfgVars, entry, assets, parseVars, recVars, pipeVars>>
    /\ IF extracted_url # <<>> /\ Len(urls) # get_num_articles
          THEN /\ urls' = Append(urls, extracted_url)
               /\ LET e == extract_url(article_bs, urls')
                  IN  IF e.raised
                         THEN /\ pc' = "raised"
                              /\ error' = "TypeError"
                              /\ extracted_url' = <<>>
                         ELSE /\ pc' = pc
                              /\ error' = error
                              /\ extracted_url' = e.url
               /\ UNCHANGED <<seed_idx, article_bs>>
          ELSE /\ urls' = urls
               /\ seed_idx' = seed_idx + 1
               /\ pc' = "find_articles"
               /\ UNCHANGED <<article_bs, extracted_url, error>>

\* One test of "while extracted_url" with the body it runs, and, when the loop
\* is left, the "if len(self.urls) == num: break" that follows it.
find_articles_while ==
    /\ pc = "find_articles_while"
    /\ requests' = requests
    /\ seed_ok' = seed_ok
    /\ UNCHANGED <<cfgVars, entry, assets, parseVars, recVars, pipeVars>>
    /\ IF extracted_url # <<>> /\ Len(urls) # get_num_articles
          THEN /\ urls' = Append(urls, extracted_url)
               /\ LET e == extract_url(article_bs, urls')
                  IN  IF e.raised
                         THEN /\ pc' = "raised"
                              /\ error' = "TypeError"
                              /\ extracted_url' = <<>>
                         ELSE /\ pc' = pc
                              /\ error' = error
                              /\ extracted_url' = e.url
               /\ UNCHANGED <<seed_idx, article_bs>>
          ELSE /\ urls' = urls
               /\ IF Len(urls) = get_num_articles
                     THEN find_articles_return
                     ELSE /\ seed_idx' = seed_idx + 1
                          /\ pc' = "find_articles"
                          /\ UNCHANGED <<article_bs, extracted_url, error>>

-----------------------------------------------------------------------------
(* HTMLParser and the parse loop of main / main_recursive *)

NOT_FOUND == <<"N","O","T"," ","F","O","U","N","D">>

\* HTMLParser.__init__: Article(full_url, article_id)
Article(full_url, article_id) ==
    [kind |-> "Article", url |-> full_url, article_id |-> article_id,
     title |-> <<>>, author |-> <<>>, date |-> "", filled |-> FALSE]

\* The author chosen from find_all('strong')[-1].string
AuthorOf(string) ==
    IF ~IsStr(string) \/ string.v = <<>> THEN NOT_FOUND ELSE string.v

\* HTMLParser._fill_article_with_meta_information on an article page
\* [headline, date, strongs]: headline says find(itemprop="headline") found an
\* element (None has no .string: AttributeError), date is the datetime
\* attribute of the datePublished element ("absent": no such element,
\* AttributeError; "malformed": strptime raises ValueError; "empty": skipped),
\* strongs are the .string values of the <strong> elements ([][-1] raises
\* IndexError). The result names the exception raised, "" when none.
fill_article_with_meta_information(art, page) ==
    IF ~page.headline THEN [raised |-> "AttributeError", article |-> art]
    ELSE LET a1 == [art EXCEPT !.title = <<"T">>]
         IN  IF page.date = "absent" THEN [raised |-> "AttributeError", article |-> a1]
             ELSE IF page.date = "malformed" THEN [raised |-> "ValueError", article |-> a1]
             ELSE LET a2 == IF page.date = "valid" THEN [a1 EXCEPT !.date = "valid"] ELSE a1
                  IN  IF page.strongs = <<>>
                         THEN [raised |-> "IndexError", article |-> a2]
                         ELSE [raised |-> "",
                               article |-> [a2 EXCEPT
                                   !.author = <<AuthorOf(page.strongs[Len(page.strongs)])>>,
                                   !.filled = TRUE]]

\* HTMLParser.parse: the article is filled when the response is OK, and
\* self.article is returned either way.
parse(art, resp) ==
    IF resp.ok THEN fill_article_with_meta_information(art, resp.page)
    ELSE [raised |-> "", article |-> art]

\* isinstance(article, Article)
IsArticle(x) == x.kind = "Article"

\* One pass of "for index, url in enumerate(crawler.urls)": the parser is
\* built, parse() requests the url, and the article it returns is written
\* with to_raw and to_meta when it is an Article.
main_parse_article(resp) ==
    /\ pc = "parse"
    /\ Len(parse_log) < Len(urls)
    /\ LET index == Len(parse_log)
           r == parse(Article(urls[index + 1], index + 1), resp)
       IN  /\ requests' = Append(requests, urls[index + 1])
           /\ article' = r.article
           /\ response' = resp
           /\ IF r.raised # ""
                 THEN /\ pc' = "raised"
                      /\ error' = r.raised
                      /\ parse_log' = parse_log
                 ELSE /\ pc' = pc
                      /\ error' = error
                      /\ parse_log' = Append(parse_log,
                             [ok |-> resp.ok, wrote |-> IsArticle(r.article)])
    /\ UNCHANGED <<cfgVars, entry, assets, crawlVars, recVars, pipeVars>>

\* The loop is over: print("It's done!")
main_done ==
    /\ pc = "parse"
    /\ Len(parse_log) >= Len(urls)
    /\ pc' = "done"
    /\ UNCHANGED <<cfgVars, entry, error, assets, requests, crawlVars, parseVars,
                   recVars, pipeVars>>

-----------------------------------------------------------------------------
(* main_recursive: environment and CrawlerRecursive *)

MaxDepth == 3

article_tag == <<"A","R","T","I","C","L","E"," ","U","R","L",":"," ">>
http == <<"h","t","t","p">>
newline == <<"\n">>

\* lit in s
Contains(s, lit) == \E i \in 1..Len(s) : HasAt(s, i, lit)

\* set.update(s) with s a string: every character of s is added as an element
UpdateWith(set, s) == set \cup {<<s[i]>> : i \in 1..Len(s)}

\* f.readlines(): the lines of a text, each with its "\n" when it has one
RECURSIVE ReadLines(_)
ReadLines(text) ==
    IF text = <<>> THEN <<>>
    ELSE LET ends == {i \in 1..Len(text) : text[i] = "\n"}
         IN  IF ends = {} THEN <<text>>
             ELSE <<SubSeq(text, 1, Min(ends))>> \o ReadLines(Slice(text, Min(ends)))

\* The lines of the file that f.write("\n".join(entries)) leaves, as a set;
\* last is the entry the iteration of the set yields last, and the only one
\* not followed by "\n".
JoinedLines(entries, last) ==
    UNION ({Range(ReadLines(e \o newline)) : e \in entries \ {last}}
           \cup {Range(ReadLines(last))})

\* The lists a comprehension over a set can build: one per iteration order
SeqsOf(S) ==
    {f \in [1..Cardinality(S) -> S] : \A i, j \in 1..Cardinality(S) : i # j => f[i] # f[j]}

\* main_recursive, line 499: clear_recursive_crawler empties the assets folder
\* and truncates already_crawled_urls.txt
clear_recursive_crawler ==
    /\ entry = "main_recursive"
    /\ pc = "prepare"
    /\ assets' = prepared_assets
    /\ crawled_file' = {}
    /\ pc' = "crawler_init"
    /\ UNCHANGED <<cfgVars, entry, error, requests, crawlVars, parseVars, web, stack,
                   start_url, already_crawled, restored, pipeVars>>

\* CrawlerRecursive.__init__; crawled_file holds the lines of the file
CrawlerRecursive_init ==
    /\ entry = "main_recursive"
    /\ pc = "crawler_init"
    /\ start_url' = base_url
    /\ already_crawled' = crawled_file
    /\ urls' \in {[i \in DOMAIN o |-> Slice(o[i], Len(article_tag) + 1)] :
                    o \in SeqsOf({u \in crawled_file : Contains(u, article_tag)})}
    /\ pc' = "rec_call"
    /\ UNCHANGED <<cfgVars, entry, error, assets, requests, seed_idx, article_bs,
                   extracted_url, seed_ok, parseVars, web, stack, crawled_file, restored,
                   pipeVars>>

\* base_url[:-len('/news'):] + href for every element with an href that does
\* not contain 'http'
PageUrls(bs) ==
    LET linked == SelectSeq(bs, LAMBDA e : IsStr(e.href) /\ ~Contains(e.href.v, http))
    IN  [i \in 1..Len(linked) |-> SubSeq(base_url, 1, Len(base_url) - Len(news))
                                    \o linked[i].href.v]

\* A call of find_articles returns: the outermost call returns to
\* main_recursive, an inner one to the end of the caller's loop body.
recursive_return(frames) ==
    IF frames = <<>>
       THEN /\ stack' = <<>>
            /\ pc' = "rec_save"
       ELSE /\ stack' = [frames EXCEPT ![Len(frames)].i = @ + 1]
            /\ pc' = "rec_for"

\* find_articles is entered: the request for start_url, "return" on a response
\* that is not OK, else the frame with all_urls. A URL requested again gets
\* the response it got before.
recursive_find_articles(resp) ==
    /\ pc = "rec_call"
    /\ start_url \in DOMAIN web => resp = web[start_url]
    /\ requests' = Append(requests, start_url)
    /\ web' = [u \in DOMAIN web \cup {start_url} |->
                  IF u = start_url THEN resp ELSE web[u]]
    /\ IF ~resp.ok
          THEN recursive_return(stack)
          ELSE /\ stack' = Append(stack,
                      [url |-> start_url, n_urls |-> Len(urls),
                       all_urls |-> <<start_url>> \o PageUrls(resp.page),
                       i |-> 1, article_bs |-> resp.page, counter |-> 0,
                       extracted_url |-> <<>>])
               /\ pc' = "rec_for"
    /\ UNCHANGED <<cfgVars, entry, error, assets, crawlVars, parseVars, start_url,
                   already_crawled, crawled_file, restored, pipeVars>>

\* "for url in all_urls" up to the while loop: the visited test, the update of
\* already_crawled, start_url, counter = 0 and the first _extract_url.
recursive_for ==
    /\ pc = "rec_for"
    /\ LET top == stack[Len(stack)]
           url == top.all_urls[top.i]
       IN  IF top.i > Len(top.all_urls)
              THEN /\ recursive_return(SubSeq(stack, 1, Len(stack) - 1))
                   /\ UNCHANGED <<start_url, already_crawled, error>>
              ELSE IF url \in already_crawled /\ url # base_url
                 THEN /\ stack' = [stack EXCEPT ![Len(stack)].i = @ + 1]
                      /\ UNCHANGED <<pc, start_url, already_crawled, error>>
                 ELSE /\ already_crawled' = IF url # base_url
                                               THEN UpdateWith(already_crawled, url)
                                               ELSE already_crawled
                      /\ start_url' = url
                      /\ LET e == extract_url(top.article_bs, urls)
                         IN  IF e.raised
                                THEN /\ pc' = "raised"
                                     /\ error' = "TypeError"
                                     /\ stack' = <<>>
                                ELSE /\ pc' = "rec_while"
                                     /\ error' = error
                                     /\ stack' = [stack EXCEPT
                                            ![Len(stack)].counter = 0,
                                            ![Len(stack)].extracted_url = e.url]
    /\ UNCHANGED <<cfgVars, entry, assets, requests, crawlVars, parseVars, web,
                   crawled_file, restored, pipeVars>>

\* One test of "while extracted_url" with the body it runs, and, when the loop
\* is left, "if counter > 0: continue" or the recursive call. The call fails
\* with RecursionError at the interpreter's recursion limit; KeyboardInterrupt
\* unwinds to main_recursive.
recursive_while ==
    /\ pc = "rec_while"
    /\ LET top == stack[Len(stack)]
       IN  IF top.extracted_url = <<>>
              THEN /\ IF top.counter > 0
                         THEN /\ stack' = [stack EXCEPT ![Len(stack)].i = @ + 1]
                              /\ pc' = "rec_for"
                              /\ error' = error
                         ELSE IF Len(stack) >= MaxDepth
                            THEN /\ stack' = <<>>
                                 /\ pc' = "raised"
                                 /\ error' = "RecursionError"
                            ELSE /\ stack' = stack
                                 /\ pc' = "rec_call"
                                 /\ error' = error
                   /\ UNCHANGED <<urls, already_crawled>>
              ELSE IF article_tag \o top.extracted_url \in Range(urls)
                 THEN /\ stack' = [stack EXCEPT ![Len(stack)].extracted_url =
                                       extract_url(top.article_bs, urls).url]
                      /\ UNCHANGED <<pc, error, urls, already_crawled>>
              ELSE IF Len(urls) = get_num_articles
                 THEN /\ stack' = <<>>
                      /\ pc' = "rec_save"
                      /\ UNCHANGED <<error, urls, already_crawled>>
                 ELSE /\ urls' = Append(urls, top.extracted_url)
                      /\ already_crawled' =
                             UpdateWith(already_crawled, article_tag \o top.extracted_url)
                      /\ LET e == extract_url(top.article_bs, urls')
                         IN  IF e.raised
                                THEN /\ pc' = "raised"
                                     /\ error' = "TypeError"
                                     /\ stack' = <<>>
                                ELSE /\ pc' = pc
                                     /\ error' = error
                                     /\ stack' = [stack EXCEPT
                                            ![Len(stack)].counter = @ + 1,
                                            ![Len(stack)].extracted_url = e.url]
    /\ UNCHANGED <<cfgVars, entry, assets, requests, seed_idx, article_bs,
                   extracted_url, seed_ok, parseVars, web, start_url, crawled_file,
                   restored, pipeVars>>

\* main_recursive, lines 509-514: the handler writes already_crawled to the
\* file, then the urls are parsed only when their number is the target.
save_already_crawled(last) ==
    /\ pc = "rec_save"
    /\ crawled_file' = JoinedLines(already_crawled, last)
    /\ pc' = IF Len(urls) = get_num_articles THEN "parse" ELSE "done"
    /\ UNCHANGED <<cfgVars, entry, error, assets, requests, crawlVars, parseVars,
                   web, stack, start_url, already_crawled, restored, pipeVars>>

\* The next CrawlerRecursive.__init__ that reads the file main_recursive has
\* written (lines 308-314): the crawler it builds
CrawlerRecursive_init_from_saved ==
    /\ entry = "main_recursive"
    /\ pc = "done"
    /\ ~restored.built
    /\ \E o \in SeqsOf({u \in crawled_file : Contains(u, article_tag)}) :
          restored' = [built |-> TRUE,
                       urls |-> [i \in DOMAIN o |-> Slice(o[i], Len(article_tag) + 1)],
                       already_crawled |-> crawled_file]
    /\ UNCHANGED <<cfgVars, runVars, assets, requests, crawlVars, parseVars, web, stack,
                   start_url, already_crawled, crawled_file, pipeVars>>

-----------------------------------------------------------------------------
(* CorpusManager (pipeline.py) *)

\* A file of the directory is [id, kind, content]: "<id>_meta.json" has kind
\* "meta", "<id>_raw.txt" kind "raw", any other file kind "other".
\* core_utils.article.article.get_article_id_from_filepath: the number the
\* file name starts with
get_article_id_from_filepath(file) == file.id

\* path.stat().st_size
st_size(file) == Len(file.content)

\* path.glob('*_meta.json'), path.glob('*_raw.txt')
Glob(dir, kind) == {f \in dir.files : f.kind = kind}

\* list.sort(key=lambda x: int(get_article_id_from_filepath(x)))
SortedById(files) ==
    CHOOSE l \in [1..Cardinality(files) -> files] :
        /\ \A f \in files : \E i \in DOMAIN l : l[i] = f
        /\ \A i, j \in DOMAIN l :
              i < j => get_article_id_from_filepath(l[i]) <= get_article_id_from_filepath(l[j])

\* Faulty variant of validate_dataset: the loop compares only the id of the meta file
\* with index + 1.
validate_dataset_meta_id_only(dir) ==
    IF ~dir.exists THEN "FileNotFoundError"
    ELSE IF ~dir.is_dir THEN "NotADirectoryError"
    ELSE IF dir.files = {} THEN "EmptyDirectoryError"
    ELSE IF Cardinality(Glob(dir, "meta")) # Cardinality(Glob(dir, "raw"))
        THEN "InconsistentDatasetError"
    ELSE LET metas == SortedById(Glob(dir, "meta"))
             raws == SortedById(Glob(dir, "raw"))
         IN  IF \E index \in 0..(Len(metas) - 1) :
                    \/ index + 1 # get_article_id_from_filepath(metas[index + 1])
                    \/ st_size(metas[index + 1]) = 0
                    \/ st_size(raws[index + 1]) = 0
                THEN "InconsistentDatasetError"
                ELSE "ok"

\* CorpusManager._validate_dataset: the exception it raises, or "ok"
validate_dataset(dir) ==
    IF ~dir.exists THEN "FileNotFoundError"
    ELSE IF ~dir.is_dir THEN "NotADirectoryError"
    ELSE IF dir.files = {} THEN "EmptyDirectoryError"
    ELSE IF Cardinality(Glob(dir, "meta")) # Cardinality(Glob(dir, "raw"))
        THEN "InconsistentDatasetError"
    ELSE LET metas == SortedById(Glob(dir, "meta"))
             raws == SortedById(Glob(dir, "raw"))
         IN  IF \E index \in 0..(Len(metas) - 1) :
                    \/ index + 1 # get_article_id_from_filepath(metas[index + 1])
                    \/ index + 1 # get_article_id_from_filepath(raws[index + 1])
                    \/ st_size(metas[index + 1]) = 0
                    \/ st_size(raws[index + 1]) = 0
                THEN "InconsistentDatasetError"
                ELSE "ok"

\* CorpusManager._scan_dataset: one Article per raw file, keyed by its id, with
\* the text from_raw reads from the file
scan_dataset(dir) ==
    [id \in {get_article_id_from_filepath(f) : f \in Glob(dir, "raw")} |->
        LET file == CHOOSE f \in Glob(dir, "raw") : get_article_id_from_filepath(f) = id
        IN  [article_id |-> id, url |-> PyNone, text |-> file.content]]

\* Faulty variant of CorpusManager_init: the dataset is scanned before it is
\* validated.
CorpusManager_init_scan_first ==
    /\ entry = "pipeline"
    /\ pc = "start"
    /\ corpusResult' = validate_dataset(directory)
    /\ storage' = scan_dataset(directory)
    /\ IF corpusResult' = "ok"
          THEN /\ pc' = "pipeline_init"
               /\ error' = error
          ELSE /\ pc' = "raised"
               /\ error' = corpusResult'
    /\ UNCHANGED <<cfgVars, entry, assets, requests, crawlVars, parseVars, recVars,
                   directory, runPipeVars, posVars, patternVars>>

\* CorpusManager.__init__
CorpusManager_init ==
    /\ entry = "pipeline"
    /\ pc = "start"
    /\ corpusResult' = validate_dataset(directory)
    /\ IF corpusResult' = "ok"
          THEN /\ storage' = scan_dataset(directory)
               /\ pc' = "pipeline_init"
               /\ error' = error
          ELSE /\ storage' = storage
               /\ pc' = "raised"
               /\ error' = corpusResult'
    /\ UNCHANGED <<cfgVars, entry, assets, requests, crawlVars, parseVars, recVars,
                   directory, runPipeVars, posVars, patternVars>>

-----------------------------------------------------------------------------
(* TextProcessingPipeline and POSFrequencyPipeline as main() of pipeline.py
   uses them *)

\* A parsed document is a sequence of sentences, a sentence a sequence of
\* words [upos, head]; the id of a word is its position in the sentence.

\* TextProcessingPipeline.__init__. main() builds the pipeline with a
\* UDPipeAnalyzer and then with a StanzaAnalyzer; the default analyzer is None.
\* order is the order in which get_articles().values() yields the articles:
\* the order in which glob found the raw files, the same for every pipeline.
TextProcessingPipeline_init(a, order) ==
    /\ entry = "pipeline"
    /\ pc = "pipeline_init"
    /\ IF analyzer = "unset"
          THEN a \in {"None", "UDPipeAnalyzer"}
          ELSE /\ a = "StanzaAnalyzer"
               /\ order = [i \in 1..Len(order) |->
                              SelectSeq(calls, LAMBDA c : c.op = "to_cleaned")[i].id]
    /\ analyzer' = a
    /\ remaining' = order
    /\ pc' = "run"
    /\ UNCHANGED <<cfgVars, entry, error, assets, requests, crawlVars, parseVars, recVars,
                   directory, storage, corpusResult, calls, conllu_info, conllu_files,
                   posVars, patternVars>>

\* The article the loop of run() is at
current_article == calls[Len(calls)].id

Call(op, id) == [op |-> op, id |-> id, analyzer |-> analyzer]

\* Faulty variant of run_to_cleaned: line 136 is skipped, to_conllu comes next.
run_to_cleaned_skip_analyze ==
    /\ pc = "run"
    /\ remaining # <<>>
    /\ remaining' = Tail(remaining)
    /\ calls' = Append(calls, Call("to_cleaned", Head(remaining)))
    /\ pc' = IF analyzer = "None" THEN "run" ELSE "run_to_conllu"
    /\ UNCHANGED <<cfgVars, entry, error, assets, requests, crawlVars, parseVars, recVars,
                   directory, storage, corpusResult, analyzer, conllu_info, conllu_files,
                   posVars, patternVars>>

\* run(), line 133-135: the loop takes the next article (the dict yields them
\* in the order glob found the files), to_cleaned(article), "if self.analyzer"
run_to_cleaned ==
    /\ pc = "run"
    /\ remaining # <<>>
    /\ remaining' = Tail(remaining)
    /\ calls' = Append(calls, Call("to_cleaned", Head(remaining)))
    /\ pc' = IF analyzer = "None" THEN "run" ELSE "run_analyze"
    /\ UNCHANGED <<cfgVars, entry, error, assets, requests, crawlVars, parseVars, recVars,
                   directory, storage, corpusResult, analyzer, conllu_info, conllu_files,
                   posVars, patternVars>>

\* run(), line 136: analyze(split_by_sentence(article.text)) returns doc,
\* set_conllu_info stores it on the article
run_analyze(doc) ==
    /\ pc = "run_analyze"
    /\ calls' = calls \o <<Call("analyze", current_article),
                           Call("set_conllu_info", current_article)>>
    /\ conllu_info' = [id \in DOMAIN conllu_info \cup {current_article} |->
                          IF id = current_article THEN doc ELSE conllu_info[id]]
    /\ pc' = "run_to_conllu"
    /\ UNCHANGED <<cfgVars, entry, error, assets, requests, crawlVars, parseVars, recVars,
                   directory, storage, corpusResult, analyzer, remaining, conllu_files,
                   posVars, patternVars>>

\* run(), line 137: analyzer.to_conllu(article) writes article.get_conllu_info()
\* to the file of the analyzer's kind, replacing the file if it is there
run_to_conllu ==
    /\ pc = "run_to_conllu"
    /\ calls' = Append(calls, Call("to_conllu", current_article))
    /\ conllu_files' =
          {f \in conllu_files : ~(f.id = current_article /\ f.kind = analyzer)}
          \cup {[id |-> current_article, kind |-> analyzer,
                 doc |-> conllu_info[current_article]]}
    /\ pc' = "run"
    /\ UNCHANGED <<cfgVars, entry, error, assets, requests, crawlVars, parseVars, recVars,
                   directory, storage, corpusResult, analyzer, remaining, conllu_info,
                   posVars, patternVars>>

\* run() returns: main() goes on to the next pipeline
run_return ==
    /\ pc = "run"
    /\ remaining = <<>>
    /\ pc' = IF analyzer = "None" THEN "done"
             ELSE IF analyzer = "UDPipeAnalyzer" THEN "pipeline_init"
             ELSE "pos_init"
    /\ UNCHANGED <<cfgVars, entry, error, assets, requests, crawlVars, parseVars, recVars,
                   pipeVars>>

\* POSFrequencyPipeline.__init__, line 267: the name ucorpus_manager is not
\* defined anywhere, its evaluation raises NameError before any field is set
POSFrequencyPipeline_init ==
    /\ entry = "pipeline"
    /\ pc = "pos_init"
    /\ pc' = "raised"
    /\ error' = "NameError"
    /\ UNCHANGED <<cfgVars, entry, assets, requests, crawlVars, parseVars, recVars,
                   pipeVars>>

-----------------------------------------------------------------------------
(* Configuration files the model draws from *)

MaxSeeds == 2

seedA == base_url
\* "http://.sbras.info/newss": matches without the optional groups
seedB == <<"h","t","t","p",":","/","/">>
         \o <<".","s","b","r","a","s",".","i","n","f","o","/","n","e","w","s","s">>
\* "https://sbras.info/news": no dot before sbras
seedNoDot == <<"h","t","t","p","s",":","/","/">>
             \o <<"s","b","r","a","s",".","i","n","f","o","/","n","e","w","s">>
notAUrl == <<"n","o","t","-","a","-","u","r","l">>
utf8 == <<"u","t","f","-","8">>

SeedElems == {PyStr(seedA), PyStr(seedB), PyStr(seedNoDot), PyStr(notAUrl), PyInt(5)}
SeedLists == UNION {[1..n -> SeedElems] : n \in 0..MaxSeeds}
SeedValues == {PyList(l) : l \in SeedLists} \cup {PyStr(seedA), PyNone}
CountValues == {PyInt(-1), PyInt(0), PyInt(1), PyInt(5), PyInt(MaxArticles),
                PyInt(MaxArticles + 1), PyInt(200), PyBool(TRUE), PyBool(FALSE),
                PyStr(<<"5">>)}
HeaderValues == {PyDict, PyStr(utf8)}
EncodingValues == {PyStr(utf8), PyNone}
TimeoutValues == {PyInt(-1), PyInt(0), PyInt(1), PyInt(MaxTimeout - 1), PyInt(MaxTimeout),
                  PyInt(MaxTimeout + 1), PyBool(TRUE), PyStr(<<"5">>)}
FlagValues == {PyBool(TRUE), PyBool(FALSE), PyInt(1)}

Configs ==
    [seed_urls : SeedValues, total_articles : CountValues, headers : HeaderValues,
     encoding : EncodingValues, timeout : TimeoutValues,
     should_verify_certificate : FlagValues, headless_mode : FlagValues]

-----------------------------------------------------------------------------
(* Values of the variables an entry point does not use *)

IdleScrapper ==
    /\ assets = [exists |-> FALSE, files |-> {}]
    /\ requests = <<>>
    /\ urls = <<>>
    /\ seed_idx = 0
    /\ article_bs = NoPage
    /\ extracted_url = <<>>
    /\ seed_ok = <<>>
    /\ parse_log = <<>>
    /\ article = NoArticle
    /\ response = NoResponse
    /\ web = <<>>
    /\ stack = <<>>
    /\ start_url = <<>>
    /\ already_crawled = {}
    /\ crawled_file = {}
    /\ restored = NoCrawler

IdleRunPipeline ==
    /\ analyzer = "unset"
    /\ remaining = <<>>
    /\ calls = <<>>
    /\ conllu_info = <<>>
    /\ conllu_files = {}

IdlePOS ==
    /\ conllu_doc = <<>>
    /\ pos_info = <<>>

IdlePattern ==
    /\ node_labels = <<>>
    /\ found_patterns = <<>>

IdlePipeline ==
    /\ directory = NoDirectory
    /\ storage = <<>>
    /\ corpusResult = "pending"
    /\ IdleRunPipeline
    /\ IdlePOS
    /\ IdlePattern

-----------------------------------------------------------------------------
(* Config alone: every configuration file, validated once *)

InitConfig ==
    /\ config \in Configs
    /\ cfgResult = "pending"
    /\ entry = "config"
    /\ pc = "start"
    /\ error = ""
    /\ IdleScrapper
    /\ IdlePipeline

NextConfig == Config_init

SpecConfig == InitConfig /\ [][NextConfig]_vars
-----------------------------------------------------------------------------
(* Claims about Config (checked under SpecConfig) *)

\* What the specification calls a valid field: an integer is a JSON integer
\* (not a boolean), the count is in 1..150 and 0 < timeout < 60.
SeedsValid(c) ==
    /\ IsList(c.seed_urls)
    /\ \A i \in 1..Len(c.seed_urls.v) :
          IsStr(c.seed_urls.v[i]) /\ ReMatchSeed(c.seed_urls.v[i].v)
CountIsPositiveInt(c) == c.total_articles.t = "int" /\ c.total_articles.v >= 1
CountValid(c) == CountIsPositiveInt(c) /\ c.total_articles.v <= 150
TimeoutValid(c) == c.timeout.t = "int" /\ 0 < c.timeout.v /\ c.timeout.v < 60

InvalidFields(c) ==
    {f \in {"seed_urls", "total_articles", "headers", "encoding", "timeout",
            "should_verify_certificate", "headless_mode"} :
        \/ f = "seed_urls" /\ ~SeedsValid(c)
        \/ f = "total_articles" /\ ~CountValid(c)
        \/ f = "headers" /\ ~IsDict(c.headers)
        \/ f = "encoding" /\ ~IsStr(c.encoding)
        \/ f = "timeout" /\ ~TimeoutValid(c)
        \/ f = "should_verify_certificate" /\ ~IsBool(c.should_verify_certificate)
        \/ f = "headless_mode" /\ ~IsBool(c.headless_mode)}

FieldError(f, c) ==
    IF f = "seed_urls" THEN "IncorrectSeedURLError"
    ELSE IF f = "total_articles"
        THEN (IF CountIsPositiveInt(c) THEN "NumberOfArticlesOutOfRangeError"
              ELSE "IncorrectNumberOfArticlesError")
    ELSE IF f = "headers" THEN "IncorrectHeadersError"
    ELSE IF f = "encoding" THEN "IncorrectEncodingError"
    ELSE IF f = "timeout" THEN "IncorrectTimeoutError"
    ELSE "IncorrectVerifyError"

\* C1: once Config(path) has run, a configuration whose fields are all valid
\* raised nothing, and a configuration with exactly one invalid field raised
\* exactly that field's error kind.
C1_ValidAcceptedSingleInvalidRejected ==
    cfgResult # "pending" =>
        /\ InvalidFields(config) = {} => cfgResult = "ok"
        /\ \A f \in InvalidFields(config) :
              InvalidFields(config) = {f} => cfgResult = FieldError(f, config)

\* The first violated rule in the order in which the specification lists the
\* constraints; each rule is violated exactly when the code's own test of it
\* fails, only the timeout rule is placed before the flags rule.
FirstViolatedInListedOrder(c) ==
    IF SeedCheck(c.seed_urls) = "fail" THEN "IncorrectSeedURLError"
    ELSE IF ~IsInt(c.total_articles) \/ c.total_articles.v <= 0
        THEN "IncorrectNumberOfArticlesError"
    ELSE IF c.total_articles.v > MaxArticles THEN "NumberOfArticlesOutOfRangeError"
    ELSE IF ~IsDict(c.headers) THEN "IncorrectHeadersError"
    ELSE IF ~IsStr(c.encoding) THEN "IncorrectEncodingError"
    ELSE IF TimeoutRejected(c.timeout) THEN "IncorrectTimeoutError"
    ELSE IF VerifyRejected(c) THEN "IncorrectVerifyError"
    ELSE "ok"

\* C2: when several rules are violated at once, Config(path) raises the error
\* of the first violated rule in the listed order (seed URL, count not a
\* positive integer, count out of range, headers, encoding, timeout, flags);
\* stated for the runs in which validation ends with one of its own errors.
C2_FirstViolatedRuleInListedOrder ==
    (cfgResult # "pending" /\ cfgResult # "TypeError") =>
        cfgResult = FirstViolatedInListedOrder(config)

\* C3: with all other fields valid, an integer timeout is accepted if and only
\* if 0 < timeout < 60, and is otherwise rejected with IncorrectTimeoutError.
C3_TimeoutAcceptedIffInsideBounds ==
    (/\ cfgResult # "pending"
     /\ InvalidFields(config) \subseteq {"timeout"}
     /\ config.timeout.t = "int") =>
        IF 0 < config.timeout.v /\ config.timeout.v < 60
            THEN cfgResult = "ok"
            ELSE cfgResult = "IncorrectTimeoutError"
-----------------------------------------------------------------------------
(* POSFrequencyPipeline._count_frequencies *)

\* The words of the sentences of a document, in order
RECURSIVE Words(_)
Words(doc) == IF doc = <<>> THEN <<>> ELSE Head(doc) \o Words(Tail(doc))

\* The loop body of lines 300-303 over the words that are left; a dict is a
\* function from its keys
RECURSIVE CountWords(_, _)
CountWords(words, pos_freq) ==
    IF words = <<>> THEN pos_freq
    ELSE LET word_feature == Head(words).upos
             with_key == IF word_feature \notin DOMAIN pos_freq
                            THEN [k \in DOMAIN pos_freq \cup {word_feature} |->
                                    IF k = word_feature THEN 0 ELSE pos_freq[k]]
                            ELSE pos_freq
         IN  CountWords(Tail(words), [with_key EXCEPT ![word_feature] = @ + 1])

\* Faulty variant of count_frequencies: only the first sentence is counted.
count_frequencies_first_sentence(doc) ==
    CountWords(IF doc = <<>> THEN <<>> ELSE Head(doc), <<>>)

\* _count_frequencies(article), doc being what from_conllu(article) reads
\* from the CONLL-U file of the article
count_frequencies(doc) == CountWords(Words(doc), <<>>)

MaxCalls == 2

\* A call of _count_frequencies for the article; set_pos_info puts the
\* result on the article. The file is not written between the calls.
POSFrequencyPipeline_count_frequencies ==
    /\ entry = "count_frequencies"
    /\ Len(pos_info) < MaxCalls
    /\ pos_info' = Append(pos_info, count_frequencies(conllu_doc))
    /\ pc' = IF Len(pos_info') = MaxCalls THEN "done" ELSE pc
    /\ UNCHANGED <<cfgVars, entry, error, assets, requests, crawlVars, parseVars, recVars,
                   directory, storage, corpusResult, runPipeVars, conllu_doc, patternVars>>

-----------------------------------------------------------------------------
(* PatternSearchPipeline *)

\* The ideal graph of __init__: nodes 0..len(pos)-1 labelled with pos, an
\* edge from every index to the next
ideal_graph(pos) ==
    [nodes |-> 0..(Len(pos) - 1),
     label |-> [i \in 0..(Len(pos) - 1) |-> pos[i + 1]],
     edges |-> {<<i, i + 1>> : i \in 0..(Len(pos) - 2)}]

\* _make_graphs for one sentence: a node per word id with its upos as label,
\* an edge head -> id per word; add_edge also creates the node of a head
\* that is no word (head 0), and that node has no attributes
make_graph(sent) ==
    [nodes |-> (1..Len(sent)) \cup {sent[i].head : i \in 1..Len(sent)},
     label |-> [n \in (1..Len(sent)) \cup {sent[i].head : i \in 1..Len(sent)} |->
                  IF n \in 1..Len(sent) THEN sent[n].upos ELSE "None"],
     edges |-> {<<sent[i].head, i>> : i \in 1..Len(sent)}]

\* _make_graphs: one graph per sentence
make_graphs(doc) == [i \in 1..Len(doc) |-> make_graph(doc[i])]

\* graph.successors(node_id)
successors(graph, node_id) == {e[2] : e \in {d \in graph.edges : d[1] = node_id}}

\* list.index: the first position of the value, counted from 0
index(labels, upos) == Min({i \in 1..Len(labels) : labels[i] = upos}) - 1

\* _add_children: the nodes and edges of subgraph_to_graph after the call for
\* node_id, whose own node is in it already. tree_node gets the same
\* children, so the tree the match is returned as has this shape.
RECURSIVE add_children(_, _, _)
add_children(graph, labels, node_id) ==
    LET children == successors(graph, node_id)
        upos == graph.label[node_id]
    IN  IF children = {} THEN [nodes |-> {node_id}, edges |-> {}]
        ELSE IF upos \notin Range(labels) \/ upos = labels[Len(labels)]
            THEN [nodes |-> {node_id}, edges |-> {}]
        ELSE LET next_pos == labels[index(labels, upos) + 2]
                 added == {c \in children : graph.label[c] = next_pos}
             IN  [nodes |-> {node_id} \cup UNION {add_children(graph, labels, c).nodes :
                                                    c \in added},
                  edges |-> {<<node_id, c>> : c \in added}
                            \cup UNION {add_children(graph, labels, c).edges : c \in added}]

\* GraphMatcher(g1, g2).is_isomorphic() without node_match and edge_match:
\* the labels are not compared
is_isomorphic(g1, g2) ==
    /\ Cardinality(g1.nodes) = Cardinality(g2.nodes)
    /\ \E f \in [g1.nodes -> g2.nodes] :
          /\ \A a, b \in g1.nodes : a # b => f[a] # f[b]
          /\ \A a, b \in g1.nodes : (<<a, b>> \in g1.edges) <=> (<<f[a], f[b]>> \in g2.edges)

\* The matches _find_pattern collects for one graph: a match is the node the
\* tree is rooted at, with the nodes and edges of the tree
patterns_of(graph, labels) ==
    {[root |-> node_id,
      nodes |-> add_children(graph, labels, node_id).nodes,
      edges |-> add_children(graph, labels, node_id).edges] :
        node_id \in {n \in graph.nodes :
            is_isomorphic(ideal_graph(labels), add_children(graph, labels, n))}}

\* _find_pattern: sentence ids (from 0) with at least one match
find_pattern(doc_graphs, labels) ==
    [sentence_id \in {i \in 0..(Len(doc_graphs) - 1) :
                         patterns_of(doc_graphs[i + 1], labels) # {}} |->
        patterns_of(doc_graphs[sentence_id + 1], labels)]

\* PatternSearchPipeline.run for one article: from_conllu, _make_graphs,
\* _find_pattern
PatternSearchPipeline_run ==
    /\ entry = "pattern_search"
    /\ pc = "start"
    /\ found_patterns' = find_pattern(make_graphs(conllu_doc), node_labels)
    /\ pc' = "done"
    /\ UNCHANGED <<cfgVars, entry, error, assets, requests, crawlVars, parseVars, recVars,
                   directory, storage, corpusResult, runPipeVars, posVars, node_labels>>

-----------------------------------------------------------------------------
(* Sites and configuration files the scrapper runs draw from *)

MaxLinks == 2
MaxStrong == 2

hrefA == PyStr(news \o <<"/","a">>)
\* "/tags/a"[5:] is "/a" as well
hrefTagsA == PyStr(<<"/","t","a","g","s","/","a">>)
hrefB == PyStr(news \o <<"/","b">>)
hrefExt == PyStr(<<"h","t","t","p",":","/","/","x">>)

Elements ==
    {[a_ru |-> TRUE, more |-> TRUE, href |-> hrefA],
     [a_ru |-> TRUE, more |-> TRUE, href |-> hrefTagsA],
     [a_ru |-> TRUE, more |-> TRUE, href |-> hrefB],
     [a_ru |-> TRUE, more |-> FALSE, href |-> hrefB],
     [a_ru |-> FALSE, more |-> TRUE, href |-> hrefExt],
     [a_ru |-> TRUE, more |-> TRUE, href |-> PyNone]}

ListingPages == UNION {[1..n -> Elements] : n \in 0..MaxLinks}
ListingResponses ==
    {[ok |-> TRUE, page |-> p] : p \in ListingPages} \cup {[ok |-> FALSE, page |-> NoPage]}

\* The pages the recursive crawler meets: an article link that is a page of
\* the site as well, a plain page link and an external link
RecElements ==
    {[a_ru |-> TRUE, more |-> TRUE, href |-> hrefA],
     [a_ru |-> TRUE, more |-> FALSE, href |-> hrefB],
     [a_ru |-> FALSE, more |-> TRUE, href |-> hrefExt]}
RecPages == UNION {[1..n -> RecElements] : n \in 0..MaxLinks}
RecResponses ==
    {[ok |-> TRUE, page |-> p] : p \in RecPages} \cup {[ok |-> FALSE, page |-> NoPage]}

StrongStrings == {PyNone, PyStr(<<>>), PyStr(<<"A">>)}
ArticlePages ==
    [headline : BOOLEAN, date : {"absent", "empty", "valid", "malformed"},
     strongs : UNION {[1..n -> StrongStrings] : n \in 0..MaxStrong}]
ArticleResponses ==
    {[ok |-> TRUE, page |-> p] : p \in ArticlePages}
    \cup {[ok |-> FALSE, page |-> [headline |-> FALSE, date |-> "absent", strongs |-> <<>>]]}

ScrapperConfigs ==
    [seed_urls : {PyList(<<>>), PyList(<<PyStr(seedA)>>),
                  PyList(<<PyStr(seedA), PyStr(seedB)>>),
                  PyList(<<PyStr(seedA), PyStr(seedA)>>),
                  PyList(<<PyStr(notAUrl)>>)},
     total_articles : {PyInt(1), PyInt(2), PyInt(3), PyInt(200), PyBool(TRUE)},
     headers : {PyDict},
     encoding : {PyStr(utf8), PyNone},
     timeout : {PyInt(5), PyInt(MaxTimeout + 1)},
     should_verify_certificate : {PyBool(TRUE), PyInt(1)},
     headless_mode : {PyBool(FALSE)}]

AssetsStates ==
    {[exists |-> FALSE, files |-> {}], [exists |-> TRUE, files |-> {}],
     [exists |-> TRUE, files |-> {"1_raw.txt", "1_meta.json"}]}

-----------------------------------------------------------------------------
(* The scrapper: main() and main_recursive() *)

Init ==
    /\ config \in ScrapperConfigs
    /\ cfgResult = "pending"
    /\ entry \in {"main", "main_recursive"}
    /\ pc = "start"
    /\ error = ""
    /\ assets \in AssetsStates
    /\ requests = <<>>
    /\ urls = <<>>
    /\ seed_idx = 0
    /\ article_bs = NoPage
    /\ extracted_url = <<>>
    /\ seed_ok = <<>>
    /\ parse_log = <<>>
    /\ article = NoArticle
    /\ response = NoResponse
    /\ web = <<>>
    /\ stack = <<>>
    /\ start_url = <<>>
    /\ already_crawled = {}
    /\ crawled_file \in {{}, {<<"o","l","d">>}}
    /\ restored = NoCrawler
    /\ IdlePipeline

NextMain ==
    \/ Config_init
    \/ prepare_environment
    \/ Crawler_init
    \/ \E resp \in ListingResponses : find_articles_request(resp.ok, resp.page)
    \/ find_articles_exhausted
    \/ find_articles_while
    \/ \E resp \in ArticleResponses : main_parse_article(resp)
    \/ main_done

NextRecursive ==
    \/ Config_init
    \/ clear_recursive_crawler
    \/ CrawlerRecursive_init
    \/ \E resp \in RecResponses : recursive_find_articles(resp)
    \/ recursive_for
    \/ recursive_while
    \/ \E last \in already_crawled \cup {<<>>} : save_already_crawled(last)
    \/ CrawlerRecursive_init_from_saved
    \/ \E resp \in ArticleResponses : main_parse_article(resp)
    \/ main_done

Next == NextMain \/ NextRecursive

Spec == Init /\ [][Next]_vars

\* main() alone. The interpreter always runs the next statement and every
\* request returns (requests.get is given a timeout), so a step that can be
\* taken is taken.
InitMain == Init /\ entry = "main"
SpecMain == InitMain /\ [][NextMain]_vars
FairSpecMain == SpecMain /\ WF_vars(NextMain)

\* main() up to the return of crawler.find_articles()
NextCrawl ==
    \/ Config_init
    \/ prepare_environment
    \/ Crawler_init
    \/ \E resp \in ListingResponses : find_articles_request(resp.ok, resp.page)
    \/ find_articles_exhausted
    \/ find_articles_while

SpecCrawl == InitMain /\ [][NextCrawl]_vars
FairSpecCrawl == SpecCrawl /\ WF_vars(NextCrawl)
-----------------------------------------------------------------------------
(* The pipeline: CorpusManager on a directory *)

MaxFileId == 2

FileNames == {[id |-> i, kind |-> k] : i \in 1..MaxFileId, k \in {"meta", "raw"}}
                 \cup {[id |-> 1, kind |-> "other"]}

\* Every name is absent, an empty file or a file with some content.
Directories ==
    {[exists |-> TRUE, is_dir |-> TRUE,
      files |-> {[id |-> n.id, kind |-> n.kind,
                  content |-> IF c[n] = "empty" THEN <<>> ELSE <<"x", n.id>>] :
                    n \in {m \in FileNames : c[m] # "absent"}}] :
        c \in [FileNames -> {"absent", "empty", "full"}]}
    \cup {NoDirectory, [exists |-> TRUE, is_dir |-> FALSE, files |-> {}]}

InitPipeline ==
    /\ directory \in Directories
    /\ storage = <<>>
    /\ corpusResult = "pending"
    /\ entry = "pipeline"
    /\ pc = "start"
    /\ error = ""
    /\ config = PyNone
    /\ cfgResult = "pending"
    /\ IdleScrapper
    /\ IdleRunPipeline
    /\ IdlePOS
    /\ IdlePattern

Analyzers == {"None", "UDPipeAnalyzer", "StanzaAnalyzer"}

\* What an analyzer can return for a text: a document without a sentence or
\* one with a sentence of one word
AnalyzedDocs == {<<>>, << <<[upos |-> "NOUN", head |-> 0]>> >>}

NextPipeline ==
    \/ CorpusManager_init
    \/ \E a \in Analyzers, order \in SeqsOf(DOMAIN storage) :
          TextProcessingPipeline_init(a, order)
    \/ run_to_cleaned
    \/ \E doc \in AnalyzedDocs : run_analyze(doc)
    \/ run_to_conllu
    \/ run_return
    \/ POSFrequencyPipeline_init

SpecPipeline == InitPipeline /\ [][NextPipeline]_vars

-----------------------------------------------------------------------------
(* Claims about the corpus manager (checked under SpecPipeline) *)

Ids(dir, kind) == {f.id : f \in Glob(dir, kind)}

\* C10: on an existing, non-empty directory CorpusManager(path) raises
\* InconsistentDatasetError when the numbers of meta and raw files differ,
\* when the ids of the meta files or of the raw files are not exactly 1..n,
\* and when a meta or raw file has size zero.
C10_InconsistentDatasetRejected ==
    (/\ corpusResult # "pending"
     /\ directory.exists /\ directory.is_dir /\ directory.files # {}
     /\ \/ Cardinality(Glob(directory, "meta")) # Cardinality(Glob(directory, "raw"))
        \/ Ids(directory, "meta") # 1..Cardinality(Glob(directory, "meta"))
        \/ Ids(directory, "raw") # 1..Cardinality(Glob(directory, "raw"))
        \/ \E f \in Glob(directory, "meta") \cup Glob(directory, "raw") : Len(f.content) = 0)
    => corpusResult = "InconsistentDatasetError"

\* One meta file 1 and one raw file 2, none of them empty, rejected
C10_Witness ==
    /\ corpusResult = "InconsistentDatasetError"
    /\ Ids(directory, "meta") = {1}
    /\ Ids(directory, "raw") = {2}
    /\ \A f \in directory.files : Len(f.content) > 0

\* The raw file of an id
RawFile(dir, id) == CHOOSE f \in Glob(dir, "raw") : f.id = id

\* C11: when CorpusManager(path) succeeds on a directory with n raw/meta
\* pairs, get_articles() has exactly the keys 1..n, the Article of a key has
\* that key as its article_id and the text of the raw file of that id, and
\* the corpus is not empty.
C11_CorpusHoldsOneArticlePerId ==
    corpusResult = "ok" =>
        LET n == Cardinality(Glob(directory, "raw"))
        IN  /\ DOMAIN storage = 1..n
            /\ \A id \in DOMAIN storage :
                  /\ storage[id].article_id = id
                  /\ storage[id].text = RawFile(directory, id).content
            /\ DOMAIN storage # {}

\* The dataset invariant of the corpus: as many meta as raw files, their ids
\* are 1..n, no file is empty
Consistent(dir) ==
    /\ Cardinality(Glob(dir, "meta")) = Cardinality(Glob(dir, "raw"))
    /\ Ids(dir, "meta") = 1..Cardinality(Glob(dir, "meta"))
    /\ Ids(dir, "raw") = 1..Cardinality(Glob(dir, "raw"))
    /\ \A f \in Glob(dir, "meta") \cup Glob(dir, "raw") : Len(f.content) > 0

\* The first violated invariant in the order existence, directory, entries,
\* consistency
ExpectedCorpusError(dir) ==
    IF ~dir.exists THEN "FileNotFoundError"
    ELSE IF ~dir.is_dir THEN "NotADirectoryError"
    ELSE IF dir.files = {} THEN "EmptyDirectoryError"
    ELSE IF ~Consistent(dir) THEN "InconsistentDatasetError"
    ELSE "ok"

\* C12: CorpusManager(path) fails with FileNotFoundError, NotADirectoryError,
\* EmptyDirectoryError or InconsistentDatasetError, whichever invariant is
\* violated first in this order, and when it fails _storage is still the
\* empty mapping: nothing was scanned.
C12_DistinctErrorsBeforeScan ==
    corpusResult # "pending" =>
        /\ corpusResult = ExpectedCorpusError(directory)
        /\ corpusResult # "ok" =>
              /\ storage = <<>>
              /\ pc = "raised"
              /\ error = corpusResult

\* A directory with a non-empty raw file 1 and no meta file was rejected with
\* nothing loaded
C12_Witness ==
    /\ corpusResult = "InconsistentDatasetError"
    /\ Ids(directory, "raw") = {1}
    /\ Ids(directory, "meta") = {}
    /\ Len(RawFile(directory, 1).content) > 0
    /\ storage = <<>>

\* The analyzers whose run() has returned
Finished ==
    {a \in Analyzers :
        \/ a = analyzer /\ pc \in {"done", "pipeline_init", "pos_init", "raised"}
        \/ a = "UDPipeAnalyzer" /\ analyzer = "StanzaAnalyzer"}

HasCall(op, id, a) ==
    \E i \in 1..Len(calls) : calls[i] = [op |-> op, id |-> id, analyzer |-> a]

\* calls[i] is the call op for the same article and by the same pipeline as calls[j]
SameArticle(i, op, j) ==
    /\ i >= 1
    /\ calls[i] = [op |-> op, id |-> calls[j].id, analyzer |-> calls[j].analyzer]

\* C13: run() makes every call once per article; analyze follows the
\* to_cleaned of the same article, set_conllu_info follows that analyze and
\* to_conllu follows that set_conllu_info, so to_conllu is only called for
\* an article with a stored parse; without an analyzer only to_cleaned is
\* called; and when run() has returned every article of the corpus was
\* cleaned and, with an analyzer, has a stored parse and a CONLL-U file.
C13_RunProcessesEveryArticleInOrder ==
    /\ \A i, j \in 1..Len(calls) : i # j => calls[i] # calls[j]
    /\ \A i \in 1..Len(calls) :
          /\ calls[i].id \in DOMAIN storage
          /\ calls[i].analyzer = "None" => calls[i].op = "to_cleaned"
          /\ calls[i].op = "analyze" => SameArticle(i - 1, "to_cleaned", i)
          /\ calls[i].op = "set_conllu_info" => SameArticle(i - 1, "analyze", i)
          /\ calls[i].op = "to_conllu" =>
                /\ SameArticle(i - 1, "set_conllu_info", i)
                /\ calls[i].id \in DOMAIN conllu_info
    /\ pc = "run_to_conllu" =>
          /\ calls[Len(calls)].op = "set_conllu_info"
          /\ current_article \in DOMAIN conllu_info
    /\ \A a \in Finished : \A id \in DOMAIN storage :
          /\ HasCall("to_cleaned", id, a)
          /\ a # "None" =>
                /\ HasCall("analyze", id, a)
                /\ HasCall("set_conllu_info", id, a)
                /\ HasCall("to_conllu", id, a)
                /\ id \in DOMAIN conllu_info
                /\ \E f \in conllu_files : f.id = id /\ f.kind = a

\* Both runs of main() are over for a corpus of two articles
C13_Witness ==
    /\ pc = "pos_init"
    /\ DOMAIN storage = {1, 2}
    /\ Len(calls) = 16
    /\ calls[1].id = 2
    /\ calls[16] = [op |-> "to_conllu", id |-> 1, analyzer |-> "StanzaAnalyzer"]

\* The run without an analyzer is over for a corpus of two articles
RunWithoutAnalyzerDone ==
    /\ pc = "done"
    /\ analyzer = "None"
    /\ DOMAIN storage = {1, 2}

\* The size of a CONLL-U file: nothing is written for a document without a
\* sentence
conllu_st_size(file) == Len(file.doc)

\* C14: when the Stanza CONLL-U file of some article has size zero,
\* constructing the POSFrequencyPipeline and calling run() ends with
\* EmptyFileError and with no other exception.
C14_EmptyConlluFileRaisesEmptyFileError ==
    (/\ corpusResult = "ok"
     /\ pc = "raised"
     /\ \E f \in conllu_files : f.kind = "StanzaAnalyzer" /\ conllu_st_size(f) = 0)
    => error = "EmptyFileError"

-----------------------------------------------------------------------------
(* _count_frequencies on persisted documents *)

MaxSentences == 2
MaxDocWords == 2

UPOS == {"VERB", "NOUN"}

\* Sentences of 1..MaxDocWords words; the heads play no part in the counting
CountSentences ==
    UNION {[1..n -> [upos : UPOS, head : {0}]] : n \in 1..MaxDocWords}
CountDocs == UNION {[1..n -> CountSentences] : n \in 0..MaxSentences}

InitCount ==
    /\ entry = "count_frequencies"
    /\ pc = "start"
    /\ error = ""
    /\ config = PyNone
    /\ cfgResult = "pending"
    /\ IdleScrapper
    /\ directory = NoDirectory
    /\ storage = <<>>
    /\ corpusResult = "pending"
    /\ IdleRunPipeline
    /\ conllu_doc \in CountDocs
    /\ pos_info = <<>>
    /\ IdlePattern

NextCount == POSFrequencyPipeline_count_frequencies

SpecCount == InitCount /\ [][NextCount]_vars

\* The places of the words of a document: <<sentence, word>>
Places(doc) == {<<i, j>> \in (1..Len(doc)) \X (1..MaxDocWords) : j <= Len(doc[i])}

\* The number of words of a document that carry a tag
Tagged(doc, tag) == Cardinality({p \in Places(doc) : doc[p[1]][p[2]].upos = tag})

RECURSIVE SumOf(_, _)
SumOf(f, keys) ==
    IF keys = {} THEN 0
    ELSE LET k == CHOOSE x \in keys : TRUE IN f[k] + SumOf(f, keys \ {k})

-----------------------------------------------------------------------------
(* Pattern search on sentences *)

MaxWords == 3
MaxPattern == 3

\* Every word of a dependency tree reaches the root 0 by following heads
RECURSIVE ReachesRoot(_, _, _)
ReachesRoot(sent, i, fuel) ==
    IF sent[i].head = 0 THEN TRUE
    ELSE IF fuel = 0 THEN FALSE
    ELSE ReachesRoot(sent, sent[i].head, fuel - 1)

\* The sentences a dependency parser returns: one word has head 0, every
\* other word has another word as head, and there is no cycle
TreeSentences ==
    UNION {{sent \in [1..n -> [upos : UPOS, head : 0..n]] :
               /\ Cardinality({i \in 1..n : sent[i].head = 0}) = 1
               /\ \A i \in 1..n : sent[i].head # i /\ ReachesRoot(sent, i, n)} :
           n \in 1..MaxWords}

PatternDocs == {<<sent>> : sent \in TreeSentences}
Patterns == UNION {[1..n -> UPOS] : n \in 1..MaxPattern}

InitPattern ==
    /\ entry = "pattern_search"
    /\ pc = "start"
    /\ error = ""
    /\ config = PyNone
    /\ cfgResult = "pending"
    /\ IdleScrapper
    /\ directory = NoDirectory
    /\ storage = <<>>
    /\ corpusResult = "pending"
    /\ IdleRunPipeline
    /\ conllu_doc \in PatternDocs
    /\ pos_info = <<>>
    /\ node_labels \in Patterns
    /\ found_patterns = <<>>

NextPattern == PatternSearchPipeline_run

SpecPattern == InitPattern /\ [][NextPattern]_vars

\* The head -> dependent chains of a sentence whose words carry the tags of
\* pos in order: sequences of word ids
Chains(sent, pos) ==
    {ch \in [1..Len(pos) -> 1..Len(sent)] :
        /\ \A i \in 1..Len(pos) : sent[ch[i]].upos = pos[i]
        /\ \A i \in 1..(Len(pos) - 1) : sent[ch[i + 1]].head = ch[i]}

\* C16: every match reported for a sentence is rooted at a word of the
\* sentence, not at node 0, and is one chain of len(pos) words whose tags
\* are pos in order, the root first.
C16_MatchesAreLabelledChains ==
    pc = "done" =>
        \A sid \in DOMAIN found_patterns : \A match \in found_patterns[sid] :
            /\ match.root # 0
            /\ \E ch \in Chains(conllu_doc[sid + 1], node_labels) :
                  /\ ch[1] = match.root
                  /\ match.nodes = Range(ch)
                  /\ match.edges = {<<ch[i], ch[i + 1]>> : i \in 1..(Len(ch) - 1)}

\* C17: for every chain of a sentence whose tags are pos in order, a match
\* rooted at the first word of the chain is reported for the sentence.
C17_EveryChainIsReported ==
    pc = "done" =>
        \A sid \in 0..(Len(conllu_doc) - 1) :
            \A ch \in Chains(conllu_doc[sid + 1], node_labels) :
                /\ sid \in DOMAIN found_patterns
                /\ \E match \in found_patterns[sid] : match.root = ch[1]

-----------------------------------------------------------------------------
(* Claims about the scrapper *)

ConfigFailed == cfgResult \notin {"pending", "ok"}

\* C4: in every run of main() and main_recursive(), a step that leaves the
\* configuration rejected (the step of Config(path) that raises, and any step
\* after it) has issued no request and has left the assets folder, its files
\* and already_crawled_urls.txt as they were.
C4_ConfigErrorBeforeAnyEffect ==
    [][ConfigFailed' =>
          /\ requests' = <<>>
          /\ assets' = assets
          /\ crawled_file' = crawled_file]_vars

\* main_recursive rejected "not-a-url" while the assets folder held files
C4_Witness ==
    /\ entry = "main_recursive"
    /\ pc = "raised"
    /\ cfgResult = "IncorrectSeedURLError"
    /\ config.seed_urls = PyList(<<PyStr(notAUrl)>>)
    /\ assets.files # {}

NoDuplicates(s) == \A i, j \in 1..Len(s) : i # j => s[i] # s[j]

\* C5: in every state of main() from the construction of the Crawler on,
\* crawler.urls holds no URL twice and at most get_num_articles() URLs.
C5_UrlsUniqueAndBounded ==
    (entry = "main" /\ cfgResult = "ok") =>
        /\ NoDuplicates(urls)
        /\ Len(urls) <= get_num_articles

\* On the second seed's page the first link leads (through another href) to
\* the URL collected from the first seed and is passed over, the second link
\* fills urls up to the target.
C5_Witness ==
    /\ entry = "main"
    /\ pc = "find_articles_while"
    /\ seed_idx = 2
    /\ get_num_articles = 2
    /\ Len(urls) = 2
    /\ Len(article_bs) = 2
    /\ article_bs[1].more /\ article_bs[1].href = hrefTagsA
    /\ LinkUrl(article_bs[1]) = urls[1]
    /\ article_bs[2].more /\ LinkUrl(article_bs[2]) = urls[2]

InFindArticles == pc \in {"find_articles", "find_articles_while"}

\* C6: Crawler.find_articles terminates; while it runs it has requested
\* exactly the seeds before its position, each once; it issues no request
\* when len(urls) is the target; and every pass of its while loop either
\* appends a URL that urls did not hold or leaves the loop.
C6_FindArticlesTerminates ==
    /\ [](InFindArticles =>
            /\ Len(requests) \in {seed_idx - 1, seed_idx}
            /\ Len(requests) <= Len(get_seed_urls)
            /\ \A i \in 1..Len(requests) : requests[i] = get_seed_urls[i].v)
    /\ [][(InFindArticles /\ requests' # requests) => Len(urls) # get_num_articles]_vars
    /\ [][pc = "find_articles_while" =>
            \/ pc' # "find_articles_while"
            \/ /\ Len(urls') = Len(urls) + 1
               /\ urls'[Len(urls')] \notin Range(urls)]_vars
    /\ (InFindArticles ~> ~InFindArticles)

\* find_articles returned after a seed whose page offered no new link
C6_Witness ==
    /\ entry = "main"
    /\ pc = "parse"
    /\ Len(get_seed_urls) = 2
    /\ Len(requests) = 2
    /\ parse_log = <<>>
    /\ Len(urls) = 1
    /\ get_num_articles = 3

\* The pages of the site the recursive crawler has seen: base_url and every
\* page URL a fetched page links to.
KnownPages ==
    {base_url} \cup UNION {Range(PageUrls(web[u].page)) : u \in {v \in DOMAIN web : web[v].ok}}

\* C7: CrawlerRecursive.find_articles makes no more fetch attempts than the
\* site has distinct pages, and is never re-entered for the start_url of the
\* calling frame without a URL having been added since that frame was entered.
C7_RecursiveFetchesBounded ==
    (entry = "main_recursive" /\ pc \in {"rec_call", "rec_for", "rec_while"}) =>
        /\ Len(requests) <= Cardinality(KnownPages)
        /\ \A k \in 1..(Len(stack) - 1) :
              stack[k + 1].url = stack[k].url => stack[k + 1].n_urls > stack[k].n_urls

\* C8: main() and main_recursive() write the raw text and the metadata of an
\* article only when its fetch succeeded: parse() hands back something that
\* is not an Article when the response is not OK.
C8_NothingWrittenForFailedFetch ==
    \A i \in 1..Len(parse_log) : parse_log[i].wrote => parse_log[i].ok

\* C9: for a successfully fetched article page whose headline and date are
\* read without error, no exception is raised and article.author is
\* ["NOT FOUND"] when the page has no <strong> element or its last <strong>
\* has no non-empty string, and [that string] otherwise.
C9_AuthorDefaultsToNotFound ==
    (/\ response.ok
     /\ response.page.headline
     /\ response.page.date \in {"empty", "valid"}) =>
        /\ error = ""
        /\ LET strongs == response.page.strongs
               last == strongs[Len(strongs)]
           IN  article.author =
                   IF strongs = <<>> \/ ~IsStr(last) \/ last.v = <<>>
                      THEN <<NOT_FOUND>>
                      ELSE <<last.v>>

-----------------------------------------------------------------------------
(* Claims about the state of the recursive crawler *)

\* C18: the crawler that the next CrawlerRecursive.__init__ builds from the
\* file main_recursive has written holds the urls collected before the file
\* was written (as a set) and as already_crawled the entries that were
\* written.
C18_SavedCrawlStateIsRestored ==
    restored.built =>
        /\ Range(restored.urls) = Range(urls)
        /\ restored.already_crawled = already_crawled

\* A whole entry of already_crawled: a page URL or article_tag + URL
WholeEntry(e) == HasAt(e, 1, site) \/ HasAt(e, 1, article_tag \o site)

\* C19: while CrawlerRecursive.find_articles runs, the page URL being
\* processed is in already_crawled unless it is base_url, every URL in urls
\* is in already_crawled as article_tag + URL, and already_crawled holds
\* whole entries only.
C19_VisitedSetHoldsWholeEntries ==
    (entry = "main_recursive" /\ pc \in {"rec_call", "rec_for", "rec_while", "rec_save"}) =>
        /\ (start_url # base_url => start_url \in already_crawled)
        /\ \A i \in 1..Len(urls) : article_tag \o urls[i] \in already_crawled
        /\ \A e \in already_crawled : WholeEntry(e)

-----------------------------------------------------------------------------
(* Claims about responses that are not OK during discovery (SpecMain) *)

\* The step is a request of find_articles that got a response that is not OK
FailedSeedRequest ==
    /\ pc = "find_articles"
    /\ Len(seed_ok') = Len(seed_ok) + 1
    /\ ~seed_ok'[Len(seed_ok')]

\* C20: a seed whose response is not OK only moves find_articles to the next
\* seed: urls and every other variable of the crawler stay as they are and
\* no error is raised, so the rest of the run is the run without that seed;
\* and when find_articles has returned, either len(urls) is the target or
\* every seed has been requested.
C20_FailedSeedIsSkipped ==
    /\ [][FailedSeedRequest =>
            /\ urls' = urls
            /\ article_bs' = article_bs
            /\ extracted_url' = extracted_url
            /\ error' = error
            /\ pc' = "find_articles"
            /\ seed_idx' = seed_idx + 1]_vars
    /\ []((entry = "main" /\ pc = "parse") =>
            \/ Len(urls) = get_num_articles
            \/ Len(seed_ok) = Len(get_seed_urls))

\* The first seed failed, the second was requested and gave a URL
C20_Witness ==
    /\ entry = "main"
    /\ pc = "parse"
    /\ seed_ok = <<FALSE, TRUE>>
    /\ Len(requests) = 2
    /\ Len(urls) = 1
    /\ get_num_articles = 2

====
